---- MODULE Spec2Model ----
(***************************************************************************)
(* The mRPC head engine of koala (src/koala/src/mrpc/engine.rs): the       *)
(* polling step MrpcEngine::resume with its adaptive backoff, the datapath *)
(* probes check_customer / check_input_queue, the control probe check_cmd  *)
(* with process_cmd, and check_new_incoming_connection, together with the  *)
(* environment the engine talks to (application, downstream engine,        *)
(* backend on the internal command channel).                               *)
(***************************************************************************)
EXTENDS Integers, Sequences, FiniteSets, TLC

(* ------------------------------ program constants --------------------- *)
DP_LIMIT == 131072

CMD_MAX_INTERVAL_MS == 1000

BUF_LEN == 32

(* ------------------------------ bounds of the model ------------------- *)
\* work requests of any shape the application posts in one run; the
\* histories of the work requests keep the first NWr entries
NWr == 2

\* slots of the customer work queue
WqCap == 2

\* messages the downstream engine delivers on rx_inputs[0] in one run
NRx == 3

\* slots of the customer completion queue
CqCap == 2

\* commands the customer sends on its control socket in one run
NCmd == 1

\* NewConnectionInternal notifications the backend raises in one run
NConn == 1

\* resume calls the runner makes in one run of SpecDp
DpCalls == 4

\* resume calls the runner makes in one run of SpecCtl
CtlCalls == 6

\* duration in ms of a slow resume call; a fast one takes (rounds to) 0 ms
TickMs == 600

\* SetTransport commands a customer sends in the runs about the transport type
NSet == 2
NShm == 3

(* ------------------------------ helpers ------------------------------- *)
Min(a, b) == IF a <= b THEN a ELSE b

Max(a, b) == IF a >= b THEN a ELSE b

\* the first n elements of s
Take(s, n) == SubSeq(s, 1, Min(n, Len(s)))

\* s without its first n elements
Drop(s, n) == SubSeq(s, Min(n, Len(s)) + 1, Len(s))

\* the latency the specification promises for a control command
MaxLatency == CMD_MAX_INTERVAL_MS + TickMs

\* the model's clocks saturate: a clock that is read against `limit` stops
\* at limit + 1, every value above the limit behaving alike
Later(t, d, limit) == Min(limit + 1, t + d)

\* how long a step of the engine takes: no time to speak of, or one tick
Durations == {0, TickMs}

\* in the long run the runner may also leave the engine alone for two ticks
LongDurations == Durations \cup {2 * TickMs}

\* the number of back-to-back calls after which backoff = 2^17 when it doubles
\* every backoff calls from 1: 1 + 2 + 4 + ... + 2^16
GrowthCalls == DP_LIMIT - 1

VARIABLES
    backoff,        \* MrpcEngine.backoff
    dp_spin_cnt,    \* MrpcEngine.dp_spin_cnt
    transport_type, \* MrpcEngine.transport_type: "None" or a transport type
    elapsed,        \* last_cmd_ts.elapsed() at the last return, in ms
    pc,             \* where the engine is: "idle" between two resume calls,
                    \* "enq" in the enqueue loop of check_input_queue,
                    \* "recv" in cmd_rx.recv() of process_cmd
    held,           \* what the engine holds while inside a call
    status,         \* what the last resume call returned
    wq,             \* customer work queue (application -> engine)
    cq,             \* customer completion queue (engine -> application)
    rx_in,          \* rx_inputs[0]: messages not yet received
    rx_open,        \* the sender of rx_inputs[0] is alive
    ctrl,           \* commands on the customer's control socket, with age
                    \* and the number of resume calls each has waited
    ctrl_open,      \* the customer's control socket is open
    to_app,         \* everything sent to the customer on the control socket
    cmd_tx,         \* commands forwarded to the backend, not yet answered
    cmd_rx,         \* completions from the backend, not yet received
    cmd_open,       \* the backend's end of the internal channel is alive
    hist,           \* history: what was dequeued from the work queue (deq),
                    \* sent on tx_outputs[0] (tx), received from
                    \* rx_inputs[0] (rx), enqueued on the completion queue
                    \* (cq), in order, and counters of what happened:
                    \* among them the calls since the last control
                    \* decision point (since) and the calls the oldest
                    \* pending command has waited as the oldest (hwait)
    obs,            \* what the last resume call did: work requests taken,
                    \* result of the control probe (probe) and of the
                    \* new-connection probe (conn_probe), Disconnected seen
                    \* on rx_inputs[0] (rx_disc), command completions sent
                    \* (sent), age of the command received (lat), the
                    \* enqueue loop went round (retried), backoff at entry
                    \* (b0), control socket closed at entry (closed), what
                    \* made the call fail (cause), transport_type at entry
                    \* (tt0), the command received (cmd), the completions
                    \* sent in answer to it (reply), last_cmd_ts was reset
                    \* (ts_reset), the call was an upgrade (upgrade), the
                    \* branch taken at the control decision point
                    \* (decision), a command was pending or last_cmd_ts
                    \* expired there (due), flush_dp ran before or after
                    \* the control probe (flush)
    calls           \* resume calls made so far

vars == <<backoff, dp_spin_cnt, transport_type, elapsed, pc, held, status,
          wq, cq, rx_in, rx_open, ctrl, ctrl_open, to_app,
          cmd_tx, cmd_rx, cmd_open, hist, obs, calls>>

(* ------------------------------ values -------------------------------- *)
\* dp::WorkRequest: Call(erased) or Reply(erased), erased.meta.func_id
WorkRequests(i) == [kind : {"Call", "Reply"}, func_id : {0, 1}, id : {i}]

\* the registered memory regions: where each starts in the engine's address
\* space (base) and in the application's (peer), and its length in bytes
Regions ==
    {[base |-> 16, peer |-> 64, len |-> 2],
     [base |-> 32, peer |-> 40, len |-> 2]}

\* the addresses, in the engine's address space, inside a registered region
Pointers == UNION {r.base .. (r.base + r.len - 1) : r \in Regions}

\* the registered region that contains ptr
RegionOf(ptr) ==
    CHOOSE r \in Regions : r.base <= ptr /\ ptr < r.base + r.len

\* marshal::query_shm_offset: the byte offset of ptr relative to its
\* containing region
query_shm_offset(ptr) == ptr - RegionOf(ptr).base

\* what arrives on rx_inputs[0]: a message with its accessors, at the first
\* address of the first region
RxMessages(i) ==
    [id : {i}, is_request : BOOLEAN, conn_id : {0}, func_id : {0},
     call_id : {i}, len : {1}, ptr : {16}]

\* what arrives on rx_inputs[0]: a message with its accessors, anywhere in a
\* registered region
ShmMessages(i) ==
    [id : {i}, is_request : BOOLEAN, conn_id : {0, 1}, func_id : {0},
     call_id : {i}, len : {1}, ptr : Pointers]

TransportTypes == {"Rdma", "Tcp"}

\* ipc::mrpc::cmd::Command
Commands ==
    [op : {"SetTransport"}, tt : TransportTypes]
    \cup [op : {"AllocShm", "Connect", "Bind", "NewMappedAddrs"}, tt : {"None"}]

\* the CompletionKind the engine expects on cmd_rx after forwarding req
Expected(op) ==
    CASE op = "AllocShm" -> "AllocShmInternal"
      [] op = "Connect" -> "ConnectInternal"
      [] op = "Bind" -> "Bind"
      [] op = "NewMappedAddrs" -> "NewMappedAddrsInternal"
      [] OTHER -> "None"

\* one injected failure per step of the engine, or none
DpFaults == {"wq_avail", "wq_deq", "tx_send", "cq_enq"}

CtlFaults == {"ctrl_other", "send_comp", "send_fd", "addr_map"}

Faults == {"none"} \cup DpFaults \cup CtlFaults

NoHeld == [t |-> "none"]

\* no command
NoCmd == [op |-> "None", tt |-> "None"]

NoObs == [taken |-> 0, probe |-> "skipped",
          conn_probe |-> "skipped", rx_disc |-> FALSE, sent |-> 0,
          lat |-> 0, retried |-> FALSE, b0 |-> 1, closed |-> FALSE,
          cause |-> "none", tt0 |-> "None", cmd |-> NoCmd, reply |-> <<>>,
          ts_reset |-> FALSE, upgrade |-> FALSE,
          decision |-> "none", due |-> FALSE, flush |-> "no"]

(* ------------------------------ the engine's state as a value --------- *)
\* The state the engine's code reads and writes, as a record, so that the
\* methods below are functions from state to state, composed in the order
\* the code runs them.  status = "Running" while a call is executing.
St ==
    [backoff |-> backoff, dp_spin_cnt |-> dp_spin_cnt,
     transport_type |-> transport_type, elapsed |-> elapsed,
     pc |-> pc, held |-> held, status |-> status,
     wq |-> wq, cq |-> cq, rx_in |-> rx_in,
     rx_open |-> rx_open, ctrl |-> ctrl, ctrl_open |-> ctrl_open,
     to_app |-> to_app, cmd_tx |-> cmd_tx, cmd_rx |-> cmd_rx,
     cmd_open |-> cmd_open, hist |-> hist, obs |-> obs]

Commit(s) ==
    /\ backoff' = s.backoff
    /\ dp_spin_cnt' = s.dp_spin_cnt
    /\ transport_type' = s.transport_type
    /\ elapsed' = s.elapsed
    /\ pc' = s.pc
    /\ held' = s.held
    /\ status' = s.status
    /\ wq' = s.wq
    /\ cq' = s.cq
    /\ rx_in' = s.rx_in
    /\ rx_open' = s.rx_open
    /\ ctrl' = s.ctrl
    /\ ctrl_open' = s.ctrl_open
    /\ to_app' = s.to_app
    /\ cmd_tx' = s.cmd_tx
    /\ cmd_rx' = s.cmd_rx
    /\ cmd_open' = s.cmd_open
    /\ hist' = s.hist
    /\ obs' = s.obs

\* the call returns r ("Continue", "Complete", "Err"), or dies ("Panic")
Return(s, r) == [s EXCEPT !.status = r, !.pc = "idle", !.held = NoHeld]

Running(s) == s.status = "Running"

\* the call ends with an error or a panic, because of `cause`
Fail(s, cause, r) == Return([s EXCEPT !.obs.cause = cause], r)

(* ------------------------------ the customer interface ---------------- *)
\* customer.get_avail_wc_slots(): the free slots of the completion queue
get_avail_wc_slots(s) == CqCap - Len(s.cq)

\* customer.has_control_command(): a control command is pending
has_control_command(s) == s.ctrl # <<>>

\* customer.send_comp(comp)?: the completion goes to the customer, or the
\* send fails and the error is propagated
send_comp(s, comp, in) ==
    IF in.f = "send_comp"
    THEN Fail(s, "send_comp", "Err")
    ELSE [s EXCEPT !.to_app = Append(@, comp), !.obs.sent = @ + 1]

\* customer.send_fd(fds).unwrap(): the fds go to the customer, or the engine
\* panics
send_fd(s, src, in) ==
    IF in.f = "send_fd"
    THEN Fail(s, "send_fd", "Panic")
    ELSE [s EXCEPT !.to_app = Append(@, [t |-> "fd", of |-> src])]

CompOk(kind, tt) == [t |-> "comp", ok |-> TRUE, kind |-> kind, tt |-> tt]

\* cmd::Completion(Err(e.into())): interface::Error::Generic(e.to_string())
CompErr(e) == [t |-> "comp", ok |-> FALSE, kind |-> "Generic", tt |-> e]

\* a command is pending or last_cmd_ts is older than CMD_MAX_INTERVAL_MS
ControlDue(s) == has_control_command(s) \/ s.elapsed > CMD_MAX_INTERVAL_MS

(* ------------------------------ the backoff arithmetic ---------------- *)
\* a growth by one instead of a doubling
DoubledByOne(b) == Min(DP_LIMIT, b + 1)

\* DP_LIMIT.min(self.backoff * 2)
Doubled(b) == Min(DP_LIMIT, b * 2)

\* a halving without the floor of 1
HalvedUnbounded(b) == b \div 2

\* std::cmp::max(1, self.backoff / 2)
Halved(b) == Max(1, b \div 2)

(* ------------------------------ application -> network ---------------- *)
\* what process_dp publishes on tx_outputs[0] for a work request with a known
\* func_id: a Call is marshalled in place, a Reply is published as it is
Published(req) ==
    [id |-> req.id, kind |-> req.kind, marshalled |-> (req.kind = "Call")]

\* a process_dp that publishes the Calls and swallows the Replies
process_dp_calls_only(s, req, fails) ==
    IF req.func_id # 0
    THEN Fail(s, "func_id", "Panic")
    ELSE IF fails
         THEN Fail(s, "tx_send", "Err")
         ELSE IF req.kind = "Call"
              THEN [s EXCEPT !.hist.tx = Take(Append(@, Published(req)), NWr)]
              ELSE s

\* process_dp: `fails` says that the send on tx_outputs[0] fails
process_dp(s, req, fails) ==
    IF req.func_id # 0
    THEN Fail(s, "func_id", "Panic")             \* unimplemented!()
    ELSE IF fails
         THEN Fail(s, "tx_send", "Err")          \* InternalQueueSend
         ELSE [s EXCEPT !.hist.tx = Take(Append(@, Published(req)), NWr)]

\* for wr in &buffer { self.process_dp(wr)?; } from the i-th request on; the
\* send of the k-th request fails (k = 0: none does)
RECURSIVE process_buffer(_, _, _, _)
process_buffer(s, buffer, i, k) ==
    IF i > Len(buffer) \/ ~Running(s)
    THEN s
    ELSE process_buffer(process_dp(s, buffer[i], i = k), buffer, i + 1, k)

\* the n of the Progress(n) that check_customer returns
check_customer_progress(count) == 0

\* check_customer: in.rc is the read_count the ring hands to the closure
check_customer(s, in) ==
    IF in.f = "wq_avail"
    THEN Fail(s, "wq_avail", "Err")              \* get_avail_wc_slots()?
    ELSE LET max_count == Min(BUF_LEN, get_avail_wc_slots(s)) IN
         IF max_count = 0
         THEN s
         ELSE IF in.f = "wq_deq"
              THEN Fail(s, "wq_deq", "Panic")    \* unwrap_or_else(panic!)
              ELSE LET count == Min(max_count, Min(in.rc, Len(s.wq)))
                       buffer == Take(s.wq, count)
                       s1 == [s EXCEPT !.wq = Drop(@, count),
                                       !.hist.deq = Take(@ \o buffer, NWr),
                                       !.obs.taken = count]
                   IN  process_buffer(s1, buffer, 1,
                                      IF in.f = "tx_send" THEN in.k ELSE 0)

(* ------------------------------ network -> application ---------------- *)
\* the dp::Completion built from a received message
Erased(msg) ==
    [id |-> msg.id,
     conn_id |-> msg.conn_id,
     func_id |-> msg.func_id,
     call_id |-> msg.call_id,
     len |-> msg.len,
     msg_type |-> IF msg.is_request THEN "Request" ELSE "Response",
     \* msg.as_ptr().wrapping_offset(query_shm_offset(msg.as_ptr())); the
     \* addresses here are far from the end of the 64-bit range
     shmptr |-> msg.ptr + query_shm_offset(msg.ptr)]

\* an enqueue that gives up when the ring is full: the completion is lost
enqueue_wc_dropping(s, erased, in) ==
    IF in.f = "cq_enq"
    THEN Fail(s, "cq_enq", "Err")
    ELSE IF Len(s.cq) < CqCap
         THEN [s EXCEPT !.cq = Append(@, erased),
                        !.hist.cq = Append(@, erased),
                        !.pc = "idle", !.held = NoHeld]
         ELSE [s EXCEPT !.pc = "idle", !.held = NoHeld]

\* one pass of `while !sent { enqueue_wc_with(..)?; }`: the ring fails, or
\* has a free slot and takes the completion, or is full and the loop goes on
enqueue_wc(s, erased, in) ==
    IF in.f = "cq_enq"
    THEN Fail(s, "cq_enq", "Err")
    ELSE IF Len(s.cq) < CqCap
         THEN [s EXCEPT !.cq = Append(@, erased),
                        !.hist.cq = Append(@, erased),
                        !.pc = "idle", !.held = NoHeld]
         ELSE [s EXCEPT !.pc = "enq", !.held = [t |-> "comp", c |-> erased],
                        !.obs.retried = TRUE]

check_input_queue(s, in) ==
    IF s.rx_in # <<>>
    THEN LET msg == Head(s.rx_in) IN
         enqueue_wc([s EXCEPT !.rx_in = Tail(@),
                              !.hist.rx = Append(@, msg)],
                    Erased(msg), in)
    ELSE IF s.rx_open
         THEN s                                           \* Empty
         ELSE [s EXCEPT !.obs.rx_disc = TRUE]             \* Disconnected

(* ------------------------------ the control plane --------------------- *)
\* fn flush_dp: Ok(Status::Progress(0)), nothing else
flush_dp(s) ==
    [s EXCEPT !.obs.flush = IF s.obs.probe = "skipped" THEN "before"
                            ELSE "after"]

\* process_cmd after cmd_rx.recv() has returned comp for the forwarded req
process_reply(s, req, comp, in) ==
    IF ~(comp.ok /\ comp.kind = Expected(req.op))
    THEN [res |-> "none",                        \* panic!("unexpected")
          s |-> Fail(s, IF comp.ok THEN "unexpected" ELSE "backend_error",
                     "Panic")]
    ELSE CASE req.op \in {"AllocShm", "Connect"} ->
                LET s1 == send_fd(s, req.op, in) IN
                [res |-> IF Running(s1) THEN "ok" ELSE "none", s |-> s1]
           [] req.op = "NewMappedAddrs" ->
                \* insert_addr_map(local_addr, buf)?
                [res |-> IF in.f = "addr_map" THEN "Resource" ELSE "ok",
                 s |-> s]
           [] OTHER -> [res |-> "ok", s |-> s]

\* check_cmd once process_cmd has returned: the completion for the customer
finish_cmd(s, req, res, in) ==
    LET comp == IF res = "ok" THEN CompOk(req.op, req.tt) ELSE CompErr(res)
        s1 == send_comp(s, comp, in)
    IN  IF Running(s1) THEN [s1 EXCEPT !.obs.reply = Append(@, comp)] ELSE s1

\* a process_cmd whose SetTransport arm sets the transport type every time
process_cmd_overwriting(s, req, in) ==
    IF req.op = "SetTransport"
    THEN finish_cmd([s EXCEPT !.transport_type = req.tt], req, "ok", in)
    ELSE IF ~s.cmd_open
         THEN Fail(s, "cmd_closed", "Panic")
         ELSE LET s1 == [s EXCEPT !.cmd_tx = Append(@, req)] IN
              IF s1.cmd_rx # <<>>
              THEN LET r == process_reply([s1 EXCEPT !.cmd_rx = Tail(@)],
                                          req, Head(s1.cmd_rx), in)
                   IN  IF Running(r.s) THEN finish_cmd(r.s, req, r.res, in)
                       ELSE r.s
              ELSE [s1 EXCEPT !.pc = "recv",
                              !.held = [t |-> "cmd", c |-> req]]

\* process_cmd followed by the match on its result in check_cmd
process_cmd(s, req, in) ==
    IF req.op = "SetTransport"
    THEN IF s.transport_type # "None"
         THEN finish_cmd(s, req, "TransportType", in)
         ELSE finish_cmd([s EXCEPT !.transport_type = req.tt], req, "ok", in)
    ELSE IF ~s.cmd_open
         THEN Fail(s, "cmd_closed", "Panic")      \* cmd_tx.send(..).unwrap()
         ELSE LET s1 == [s EXCEPT !.cmd_tx = Append(@, req)] IN
              IF s1.cmd_rx # <<>>
              THEN LET r == process_reply([s1 EXCEPT !.cmd_rx = Tail(@)],
                                          req, Head(s1.cmd_rx), in)
                   IN  IF Running(r.s) THEN finish_cmd(r.s, req, r.res, in)
                       ELSE r.s
              ELSE [s1 EXCEPT !.pc = "recv",      \* cmd_rx.recv() blocks
                              !.held = [t |-> "cmd", c |-> req]]

check_cmd(s, in) ==
    IF in.f = "ctrl_other"
    THEN Fail([s EXCEPT !.obs.probe = "other"], "ctrl_other", "Err")
                                                             \* IpcTryRecv
    ELSE IF s.ctrl # <<>>
         THEN process_cmd([s EXCEPT !.ctrl = Tail(@), !.obs.probe = "req",
                                    !.obs.lat = Head(s.ctrl).age,
                                    !.obs.cmd = Head(s.ctrl).cmd],
                          Head(s.ctrl).cmd, in)
         ELSE IF s.ctrl_open
              THEN [s EXCEPT !.obs.probe = "empty"]
              ELSE [s EXCEPT !.obs.probe = "disconnected"]

check_new_incoming_connection(s, in) ==
    IF s.cmd_rx # <<>>
    THEN LET comp == Head(s.cmd_rx)
             s1 == [s EXCEPT !.cmd_rx = Tail(@), !.obs.conn_probe = "conn"]
         IN  IF comp.ok /\ comp.kind = "NewConnectionInternal"
             THEN LET s2 == send_fd(s1, "NewConnection", in) IN
                  IF Running(s2)
                  THEN send_comp(s2, CompOk("NewConnection", "None"), in)
                  ELSE s2
             ELSE Fail(s1, IF comp.ok THEN "unexpected" ELSE "backend_error",
                       "Panic")                   \* panic!("unexpected")
    ELSE IF s.cmd_open
         THEN [s EXCEPT !.obs.conn_probe = "empty"]
         ELSE [s EXCEPT !.obs.conn_probe = "disconnected"]

(* ------------------------------ resume -------------------------------- *)
\* resume from check_new_incoming_connection to its end
resume_end(s, in) ==
    LET s1 == check_new_incoming_connection(s, in) IN
    IF Running(s1) THEN Return(s1, "Continue") ELSE s1

\* a resume that takes no notice of Status::Disconnected from check_cmd
resume_after_cmd_ignoring(s, in) ==
    IF ~Running(s) \/ s.pc # "idle"
    THEN s
    ELSE resume_end(s, in)

\* resume once check_cmd has returned
resume_after_cmd(s, in) ==
    IF ~Running(s) \/ s.pc # "idle"
    THEN s
    ELSE IF s.obs.probe = "disconnected"
         THEN Return(s, "Complete")
         ELSE resume_end(s, in)

\* a resume that also doubles backoff when it returns before the decision
resume_spin_eager(s, in) ==
    LET s1 == [s EXCEPT !.dp_spin_cnt = @ + 1] IN
    IF s1.dp_spin_cnt < s1.backoff
    THEN Return([s1 EXCEPT !.backoff = Doubled(@)], "Continue")
    ELSE LET s2 == [s1 EXCEPT !.dp_spin_cnt = 0,
                              !.obs.due = ControlDue(s1)] IN
         IF has_control_command(s2) \/ s2.elapsed > CMD_MAX_INTERVAL_MS
         THEN resume_after_cmd(
                  check_cmd(flush_dp([s2 EXCEPT !.elapsed = 0,
                                                !.obs.ts_reset = TRUE,
                                                !.obs.decision = "control",
                                                !.backoff = Halved(@)]), in),
                  in)
         ELSE resume_end([s2 EXCEPT !.backoff = Doubled(@),
                                    !.obs.decision = "idle"], in)

\* a resume that forgets `self.last_cmd_ts = Instant::now()`
resume_spin_stale_ts(s, in) ==
    LET s1 == [s EXCEPT !.dp_spin_cnt = @ + 1] IN
    IF s1.dp_spin_cnt < s1.backoff
    THEN Return(s1, "Continue")
    ELSE LET s2 == [s1 EXCEPT !.dp_spin_cnt = 0,
                              !.obs.due = ControlDue(s1)] IN
         IF has_control_command(s2) \/ s2.elapsed > CMD_MAX_INTERVAL_MS
         THEN resume_after_cmd(
                  check_cmd(flush_dp([s2 EXCEPT !.obs.decision = "control",
                                                !.backoff = Halved(@)]), in),
                  in)
         ELSE resume_end([s2 EXCEPT !.backoff = Doubled(@),
                                    !.obs.decision = "idle"], in)

\* a resume that probes for a new connection before it returns at the spin
\* test
resume_spin_probing(s, in) ==
    LET s1 == [s EXCEPT !.dp_spin_cnt = @ + 1] IN
    IF s1.dp_spin_cnt < s1.backoff
    THEN resume_end(s1, in)
    ELSE LET s2 == [s1 EXCEPT !.dp_spin_cnt = 0,
                              !.obs.due = ControlDue(s1)] IN
         IF has_control_command(s2) \/ s2.elapsed > CMD_MAX_INTERVAL_MS
         THEN resume_after_cmd(
                  check_cmd(flush_dp([s2 EXCEPT !.elapsed = 0,
                                                !.obs.ts_reset = TRUE,
                                                !.obs.decision = "control",
                                                !.backoff = Halved(@)]), in),
                  in)
         ELSE resume_end([s2 EXCEPT !.backoff = Doubled(@),
                                    !.obs.decision = "idle"], in)

\* a resume that probes control only when last_cmd_ts has expired
resume_spin_timer_only(s, in) ==
    LET s1 == [s EXCEPT !.dp_spin_cnt = @ + 1] IN
    IF s1.dp_spin_cnt < s1.backoff
    THEN Return(s1, "Continue")
    ELSE LET s2 == [s1 EXCEPT !.dp_spin_cnt = 0,
                              !.obs.due = ControlDue(s1)] IN
         IF s2.elapsed > CMD_MAX_INTERVAL_MS
         THEN resume_after_cmd(
                  check_cmd(flush_dp([s2 EXCEPT !.elapsed = 0,
                                                !.obs.ts_reset = TRUE,
                                                !.obs.decision = "control",
                                                !.backoff = Halved(@)]), in),
                  in)
         ELSE resume_end([s2 EXCEPT !.backoff = Doubled(@),
                                    !.obs.decision = "idle"], in)

\* a resume whose spin test is `dp_spin_cnt <= backoff`
resume_spin_late(s, in) ==
    LET s1 == [s EXCEPT !.dp_spin_cnt = @ + 1] IN
    IF s1.dp_spin_cnt <= s1.backoff
    THEN Return(s1, "Continue")
    ELSE LET s2 == [s1 EXCEPT !.dp_spin_cnt = 0,
                              !.obs.due = ControlDue(s1)] IN
         IF has_control_command(s2) \/ s2.elapsed > CMD_MAX_INTERVAL_MS
         THEN resume_after_cmd(
                  check_cmd(flush_dp([s2 EXCEPT !.elapsed = 0,
                                                !.obs.ts_reset = TRUE,
                                                !.obs.decision = "control",
                                                !.backoff = Halved(@)]), in),
                  in)
         ELSE resume_end([s2 EXCEPT !.backoff = Doubled(@),
                                    !.obs.decision = "idle"], in)

\* a resume that probes control only when a command is pending and
\* last_cmd_ts has expired as well
resume_spin_both(s, in) ==
    LET s1 == [s EXCEPT !.dp_spin_cnt = @ + 1] IN
    IF s1.dp_spin_cnt < s1.backoff
    THEN Return(s1, "Continue")
    ELSE LET s2 == [s1 EXCEPT !.dp_spin_cnt = 0,
                              !.obs.due = ControlDue(s1)] IN
         IF has_control_command(s2) /\ s2.elapsed > CMD_MAX_INTERVAL_MS
         THEN resume_after_cmd(
                  check_cmd(flush_dp([s2 EXCEPT !.elapsed = 0,
                                                !.obs.ts_reset = TRUE,
                                                !.obs.decision = "control",
                                                !.backoff = Halved(@)]), in),
                  in)
         ELSE resume_end([s2 EXCEPT !.backoff = Doubled(@),
                                    !.obs.decision = "idle"], in)

\* resume from `self.dp_spin_cnt += 1` on
resume_spin(s, in) ==
    LET s1 == [s EXCEPT !.dp_spin_cnt = @ + 1] IN
    IF s1.dp_spin_cnt < s1.backoff
    THEN Return(s1, "Continue")
    ELSE LET s2 == [s1 EXCEPT !.dp_spin_cnt = 0,
                              !.obs.due = ControlDue(s1)] IN
         IF has_control_command(s2) \/ s2.elapsed > CMD_MAX_INTERVAL_MS
         THEN resume_after_cmd(
                  check_cmd(flush_dp([s2 EXCEPT !.elapsed = 0,
                                                !.obs.ts_reset = TRUE,
                                                !.obs.decision = "control",
                                                !.backoff = Halved(@)]), in),
                  in)
         ELSE resume_end([s2 EXCEPT !.backoff = Doubled(@),
                                    !.obs.decision = "idle"], in)

\* resume from its first line to the point where it returns or blocks
resume(s, in) ==
    LET s1 == check_customer(s, in) IN
    IF ~Running(s1)
    THEN s1
    ELSE LET s2 == IF check_customer_progress(s1.obs.taken) > 0
                   THEN [s1 EXCEPT !.backoff = Doubled(@)]
                   ELSE s1
             s3 == check_input_queue(s2, in)
         IN  IF ~Running(s3) \/ s3.pc # "idle"
             THEN s3
             ELSE resume_spin(s3, in)

(* ------------------------------ impl Upgradable ----------------------- *)
\* every method of impl Upgradable for MrpcEngine is unimplemented!()
version(s) == Fail(s, "unimplemented", "Panic")

check_compatible(s) == Fail(s, "unimplemented", "Panic")

suspend(s) == Fail(s, "unimplemented", "Panic")

dump(s) == Fail(s, "unimplemented", "Panic")

restore(s) == Fail(s, "unimplemented", "Panic")

\* the upgrade of one engine: check_compatible, suspend, dump, restore, and
\* version() asked of the engine that results; a step runs if the one before
\* it returned
upgrade(s) ==
    LET s1 == check_compatible(s)
        s2 == IF Running(s1) THEN suspend(s1) ELSE s1
        s3 == IF Running(s2) THEN dump(s2) ELSE s2
        s4 == IF Running(s3) THEN restore(s3) ELSE s3
    IN  IF Running(s4) THEN version(s4) ELSE s4

(* ------------------------------ one call of resume -------------------- *)
\* what the environment decides during a step of the engine: the failure it
\* injects, the read_count the work ring hands out, which send on
\* tx_outputs[0] fails, and how long the step takes
Inputs ==
    [f : Faults \ {"tx_send"}, rc : 1..WqCap, k : {0}, d : LongDurations]
    \cup [f : {"tx_send"}, rc : 1..WqCap, k : 1..WqCap, d : LongDurations]

\* d ms pass: last_cmd_ts and the pending commands grow older
Tick(s, d) ==
    [s EXCEPT !.elapsed = Later(@, d, CMD_MAX_INTERVAL_MS),
              !.ctrl = [i \in DOMAIN @ |->
                          [@[i] EXCEPT !.age = Later(@, d, MaxLatency)]]]

\* the runner enters resume
Enter(s, d) ==
    [Tick(s, d) EXCEPT !.status = "Running",
                       !.obs = [NoObs EXCEPT !.b0 = s.backoff,
                                             !.closed = ~s.ctrl_open,
                                             !.tt0 = s.transport_type]]

\* bookkeeping when a step of the engine ends: once the call has returned,
\* count it if it saw Disconnected on an input (up to two such calls),
\* count the calls since the last one that reached the control decision
\* point, and count it for the commands it left pending
Leave(s) ==
    IF Running(s)
    THEN s
    ELSE [s EXCEPT
            !.hist.disc_calls =
                IF s.obs.rx_disc \/ s.obs.conn_probe = "disconnected"
                THEN Min(2, @ + 1) ELSE @,
            !.hist.since =
                IF s.obs.decision # "none" THEN 0 ELSE Min(DP_LIMIT, @ + 1),
            !.hist.hwait =
                IF s.obs.probe = "req" \/ s.ctrl = <<>>
                THEN 0 ELSE Min(DP_LIMIT, @ + 1),
            !.ctrl = [i \in DOMAIN @ |->
                         [@[i] EXCEPT !.wait = Min(DP_LIMIT, @ + 1)]]]

Alive == status \in {"Continue", "Running"}

\* the inputs of a step in which nothing fails
Quiet == {in \in Inputs : in.f = "none" /\ in.rc = WqCap}

\* the inputs of a step in which nothing fails on the control plane
DpInputs == {in \in Inputs : in.f \notin CtlFaults /\ in.d \in Durations}

\* the inputs of a step in which nothing fails on the datapath
CtlInputs ==
    {in \in Inputs : in.f \notin DpFaults /\ in.rc = WqCap /\ in.d \in Durations}

\* the runner calls resume on an engine that has not ended, with an input of I
Call(I) ==
    /\ pc = "idle"
    /\ status = "Continue"
    /\ \E in \in I : Commit(Leave(resume(Enter(St, in.d), in)))

\* the runner calls resume, at most DpCalls times
RunDp ==
    /\ calls < DpCalls
    /\ Call(DpInputs)
    /\ calls' = calls + 1

\* the runner calls resume, at most CtlCalls times, each time with a work
\* request waiting
RunCtl ==
    /\ calls < CtlCalls
    /\ wq # <<>>
    /\ Call(CtlInputs)
    /\ calls' = calls + 1

\* the runner calls resume, at most DpCalls times, and nothing fails
RunShm ==
    /\ calls < DpCalls
    /\ Call({in \in Quiet : in.d \in Durations})
    /\ calls' = calls + 1

\* the runner calls resume, any number of times, and nothing fails
RunLong ==
    /\ Call(Quiet)
    /\ UNCHANGED calls

\* the runner calls resume back to back (a call takes no time to speak of),
\* any number of times, each time with a work request waiting
RunGrow ==
    /\ wq # <<>>
    /\ Call({in \in Quiet : in.d = 0})
    /\ calls' = Min(GrowthCalls, calls + 1)

\* inside check_input_queue: a later pass of the enqueue loop
EnqRetry ==
    /\ pc = "enq"
    /\ \E in \in DpInputs :
         /\ in.d = 0
         /\ in.f = "cq_enq" \/ Len(cq) < CqCap
         /\ LET s1 == enqueue_wc(St, held.c, in) IN
            Commit(Leave(IF Running(s1) THEN resume_spin(s1, in) ELSE s1))
    /\ UNCHANGED calls

\* inside process_cmd: cmd_rx.recv().unwrap() returns, or panics because the
\* backend is gone
RecvReply ==
    /\ pc = "recv"
    /\ \E in \in CtlInputs :
         /\ in.d = 0
         /\ IF cmd_rx # <<>>
            THEN LET r == process_reply(
                              [St EXCEPT !.cmd_rx = Tail(@), !.pc = "idle",
                                         !.held = NoHeld],
                              held.c, Head(cmd_rx), in)
                 IN  Commit(Leave(
                        IF Running(r.s)
                        THEN resume_after_cmd(
                                 finish_cmd(r.s, held.c, r.res, in), in)
                        ELSE r.s))
            ELSE /\ ~cmd_open
                 /\ Commit(Leave(Fail(St, "cmd_closed", "Panic")))
    /\ UNCHANGED calls

\* the control plane upgrades the engine between two calls of resume
Upgrade ==
    /\ pc = "idle"
    /\ status = "Continue"
    /\ LET s0 == [St EXCEPT !.status = "Running",
                            !.obs = [NoObs EXCEPT
                                        !.b0 = backoff,
                                        !.tt0 = transport_type,
                                        !.upgrade = TRUE]]
           s1 == upgrade(s0)
       IN  Commit(IF Running(s1) THEN Return(s1, "Continue") ELSE s1)
    /\ UNCHANGED calls

(* ------------------------------ the environment ----------------------- *)
EngineVars == <<backoff, dp_spin_cnt, transport_type, elapsed, pc, held,
                status, obs, calls>>

\* the application posts a work request
AppPost ==
    /\ Alive
    /\ Len(wq) < WqCap
    /\ hist.nwr < NWr
    /\ \E wr \in WorkRequests(hist.nwr + 1) : wq' = Append(wq, wr)
    /\ hist' = [hist EXCEPT !.nwr = @ + 1]
    /\ UNCHANGED <<EngineVars, cq, rx_in, rx_open, ctrl, ctrl_open,
                   to_app, cmd_tx, cmd_rx, cmd_open>>

\* the application keeps the work queue saturated with well-formed calls
\* (HelloRequest, func_id 0), as many as the run asks for
AppFeed ==
    /\ Alive
    /\ Len(wq) < WqCap
    /\ wq' = Append(wq, [kind |-> "Call", func_id |-> 0, id |-> 0])
    /\ UNCHANGED <<EngineVars, cq, rx_in, rx_open, ctrl, ctrl_open,
                   to_app, cmd_tx, cmd_rx, cmd_open, hist>>

\* the application takes a completion from the completion queue
AppPoll ==
    /\ Alive
    /\ cq # <<>>
    /\ cq' = Tail(cq)
    /\ UNCHANGED <<EngineVars, wq, rx_in, rx_open, ctrl, ctrl_open,
                   to_app, cmd_tx, cmd_rx, cmd_open, hist>>

\* the downstream engine sends a message on rx_inputs[0]
DownSend ==
    /\ Alive
    /\ rx_open
    /\ Len(hist.rx) + Len(rx_in) < NRx
    /\ \E m \in RxMessages(Len(hist.rx) + Len(rx_in) + 1) :
         rx_in' = Append(rx_in, m)
    /\ UNCHANGED <<EngineVars, wq, cq, rx_open, ctrl, ctrl_open,
                   to_app, cmd_tx, cmd_rx, cmd_open, hist>>

\* the downstream engine sends a message that lies anywhere in a registered
\* region
DownSendAt ==
    /\ Alive
    /\ rx_open
    /\ Len(hist.rx) + Len(rx_in) < NShm
    /\ \E m \in ShmMessages(Len(hist.rx) + Len(rx_in) + 1) :
         rx_in' = Append(rx_in, m)
    /\ UNCHANGED <<EngineVars, wq, cq, rx_open, ctrl, ctrl_open,
                   to_app, cmd_tx, cmd_rx, cmd_open, hist>>

\* the downstream engine drops its sender of rx_inputs[0]
DownClose ==
    /\ Alive
    /\ rx_open
    /\ rx_open' = FALSE
    /\ UNCHANGED <<EngineVars, wq, cq, rx_in, ctrl, ctrl_open,
                   to_app, cmd_tx, cmd_rx, cmd_open, hist>>

\* the customer sends a command on its control socket
CustSend ==
    /\ Alive
    /\ ctrl_open
    /\ hist.ncmd < NCmd
    /\ \E c \in Commands : ctrl' = Append(ctrl, [cmd |-> c, age |-> 0, wait |-> 0])
    /\ hist' = [hist EXCEPT !.ncmd = @ + 1]
    /\ UNCHANGED <<EngineVars, wq, cq, rx_in, rx_open, ctrl_open,
                   to_app, cmd_tx, cmd_rx, cmd_open>>

\* the customer sends SetTransport, up to NSet times
CustSetTransport ==
    /\ Alive
    /\ ctrl_open
    /\ hist.ncmd < NSet
    /\ \E tt \in TransportTypes :
         ctrl' = Append(ctrl, [cmd |-> [op |-> "SetTransport", tt |-> tt],
                               age |-> 0, wait |-> 0])
    /\ hist' = [hist EXCEPT !.ncmd = @ + 1]
    /\ UNCHANGED <<EngineVars, wq, cq, rx_in, rx_open, ctrl_open,
                   to_app, cmd_tx, cmd_rx, cmd_open>>

\* the customer closes its control socket (it exits, or crashes)
CustClose ==
    /\ Alive
    /\ ctrl_open
    /\ ctrl_open' = FALSE
    /\ UNCHANGED <<EngineVars, wq, cq, rx_in, rx_open, ctrl,
                   to_app, cmd_tx, cmd_rx, cmd_open, hist>>

\* the backend answers the oldest forwarded command: the completion the
\* engine expects, or an error
BackendReply ==
    /\ Alive
    /\ cmd_open
    /\ cmd_tx # <<>>
    /\ \E ok \in BOOLEAN :
         cmd_rx' = Append(cmd_rx,
                          [ok |-> ok,
                           kind |-> IF ok THEN Expected(Head(cmd_tx).op)
                                    ELSE "Error"])
    /\ cmd_tx' = Tail(cmd_tx)
    /\ UNCHANGED <<EngineVars, wq, cq, rx_in, rx_open, ctrl,
                   ctrl_open, to_app, cmd_open, hist>>

\* the backend reports a newly accepted connection
BackendNotify ==
    /\ Alive
    /\ cmd_open
    /\ hist.nconn < NConn
    /\ cmd_rx' = Append(cmd_rx, [ok |-> TRUE, kind |-> "NewConnectionInternal"])
    /\ hist' = [hist EXCEPT !.nconn = @ + 1]
    /\ UNCHANGED <<EngineVars, wq, cq, rx_in, rx_open, ctrl,
                   ctrl_open, to_app, cmd_tx, cmd_open>>

\* the backend drops its ends of the internal command channel
BackendClose ==
    /\ Alive
    /\ cmd_open
    /\ cmd_open' = FALSE
    /\ UNCHANGED <<EngineVars, wq, cq, rx_in, rx_open, ctrl,
                   ctrl_open, to_app, cmd_tx, cmd_rx, hist>>

(* ------------------------------ specifications ------------------------ *)
Init ==
    /\ backoff = 1
    /\ dp_spin_cnt = 0
    /\ transport_type = "None"
    /\ elapsed = 0
    /\ pc = "idle"
    /\ held = NoHeld
    /\ status = "Continue"
    /\ wq = <<>>
    /\ cq = <<>>
    /\ rx_in = <<>>
    /\ rx_open = TRUE
    /\ ctrl = <<>>
    /\ ctrl_open = TRUE
    /\ to_app = <<>>
    /\ cmd_tx = <<>>
    /\ cmd_rx = <<>>
    /\ cmd_open = TRUE
    /\ hist = [deq |-> <<>>, tx |-> <<>>, rx |-> <<>>, cq |-> <<>>, ncmd |-> 0,
               nwr |-> 0,
               nconn |-> 0, disc_calls |-> 0, since |-> 0,
               hwait |-> 0]
    /\ obs = NoObs
    /\ calls = 0

\* the datapath: the application posts work requests and polls completions,
\* the downstream engine delivers messages, the customer may go away
NextDp ==
    \/ RunDp
    \/ EnqRetry
    \/ AppPost
    \/ AppPoll
    \/ DownSend
    \/ DownClose

SpecDp == Init /\ [][NextDp]_vars

\* the control plane, with the work queue kept saturated: the customer sends
\* commands and may go away, the backend answers, notifies and may go away
NextCtl ==
    \/ RunCtl
    \/ RecvReply
    \/ AppFeed
    \/ CustSend
    \/ CustClose
    \/ BackendReply
    \/ BackendNotify
    \/ BackendClose

SpecCtl == Init /\ [][NextCtl]_vars

\* the long run: resume is called any number of times, time passes
NextLong ==
    \/ RunLong

SpecLong == Init /\ [][NextLong]_vars

\* back-to-back traffic: resume is called again and again with work waiting
NextGrow ==
    \/ RunGrow
    \/ AppFeed

SpecGrow == Init /\ [][NextGrow]_vars

\* the transport type: the customer sends SetTransport more than once, the
\* work queue is kept saturated
NextSet ==
    \/ RunCtl
    \/ AppFeed
    \/ CustSetTransport

SpecSet == Init /\ [][NextSet]_vars

\* upgrades: the control plane upgrades the engine while it serves the
\* datapath
NextUp ==
    \/ RunDp
    \/ AppPost
    \/ Upgrade

SpecUp == Init /\ [][NextUp]_vars

\* the receive path over shared memory: messages arrive anywhere in the
\* registered regions and the application polls their completions
NextShm ==
    \/ RunShm
    \/ EnqRetry
    \/ AppPoll
    \/ DownSendAt

SpecShm == Init /\ [][NextShm]_vars

(* ====================================================================== *)
(* The claims                                                             *)
(* ====================================================================== *)

\* C1: in every state reachable by resume calls from backoff = 1 and
\* dp_spin_cnt = 0, 1 <= backoff <= DP_LIMIT.
C1_BackoffInRange == 1 <= backoff /\ backoff <= DP_LIMIT

\* backoff has grown to DP_LIMIT and a later decision has halved it again
C1_Witness == backoff = DP_LIMIT \div 2 /\ obs.b0 = DP_LIMIT

\* the engine has not failed: no call has returned an error or panicked
NotFailed == status \notin {"Err", "Panic"}

\* C2: as long as no resume call has failed, the messages sent on
\* tx_outputs[0] are the work requests dequeued from the customer work queue,
\* in the same order, none lost and none twice.
C2_TxIsDequeued ==
    NotFailed =>
        /\ Len(hist.tx) = Len(hist.deq)
        /\ \A i \in 1..Len(hist.tx) :
             /\ hist.tx[i].id = hist.deq[i].id
             /\ hist.tx[i].kind = hist.deq[i].kind

\* one call has taken two work requests and sent both
C2_Witness ==
    /\ status = "Continue"
    /\ obs.taken = 2
    /\ Len(hist.tx) = 2
    /\ hist.tx[1].id = 1

\* the completions of the messages m
Completions(m) ==
    [i \in 1..Len(m) |->
        [id |-> m[i].id,
         msg_type |-> IF m[i].is_request THEN "Request" ELSE "Response"]]

\* which message each completion of q is for, and of which type
Delivered(q) ==
    [i \in 1..Len(q) |-> [id |-> q[i].id, msg_type |-> q[i].msg_type]]

\* C3: as long as no resume call has failed, the Completions enqueued on the
\* completion queue are those of the messages received from rx_inputs[0], in
\* the same order, one each; while the completion queue is full the engine
\* holds the one Completion it is retrying, inside the same resume call.
C3_CqIsReceived ==
    NotFailed =>
        Completions(hist.rx) =
            Delivered(IF pc = "enq" THEN Append(hist.cq, held.c) ELSE hist.cq)

\* a message arrived while the completion queue was full, the engine went
\* round the enqueue loop, and the call has returned with all three delivered
C3_Witness ==
    /\ status = "Continue"
    /\ pc = "idle"
    /\ obs.retried
    /\ Len(hist.cq) = CqCap + 1

\* C4: a resume call never waits for the environment: it is not inside the
\* enqueue loop with the completion queue full, and not inside cmd_rx.recv()
\* with nothing to receive.
C4_ResumeNeverWaits ==
    /\ ~(pc = "enq" /\ Len(cq) = CqCap)
    /\ ~(pc = "recv" /\ cmd_rx = <<>> /\ cmd_open)

\* C5: a resume call whose control probe observes Disconnected returns
\* Complete, sends no completion to the customer and does not probe for a new
\* incoming connection.
C5_DisconnectedCompletes ==
    obs.probe = "disconnected" =>
        /\ status = "Complete"
        /\ obs.sent = 0
        /\ obs.conn_probe = "skipped"

C5_Witness == obs.probe = "disconnected" /\ status = "Complete"

\* C6: a resume call entered after the customer's control socket was closed
\* returns Complete (it does not return Continue).
C6_NextCallCompletes ==
    (obs.closed /\ pc = "idle") => status # "Continue"

\* C7: once a call has observed Disconnected on its input, the next call
\* returns Complete: the second call that observes it does not return
\* Continue.
C7_InputDisconnectCompletes ==
    hist.disc_calls = 2 => status # "Continue"

\* C8: with the datapath saturated, no control command stays pending for
\* more than CMD_MAX_INTERVAL_MS plus one resume step.
C8_CommandLatency ==
    \A i \in DOMAIN ctrl : ctrl[i].age <= MaxLatency

\* C9: under back-to-back traffic, with no control command pending and
\* last_cmd_ts not older than CMD_MAX_INTERVAL_MS, backoff doubles every
\* backoff calls (below DP_LIMIT the calls made so far number
\* backoff - 1 + dp_spin_cnt), so that it has reached DP_LIMIT once resume has
\* been called 2^17 - 1 times from backoff = 1, and it stays there.
C9_BackoffReachesLimit ==
    /\ backoff < DP_LIMIT => calls = backoff - 1 + dp_spin_cnt
    /\ calls >= GrowthCalls => backoff = DP_LIMIT

\* the call that made backoff DP_LIMIT, taking a work request
C9_Witness ==
    /\ backoff = DP_LIMIT
    /\ obs.b0 = DP_LIMIT \div 2
    /\ obs.taken > 0
    /\ ctrl = <<>>
    /\ elapsed <= CMD_MAX_INTERVAL_MS

\* C10 as stated: across a resume call backoff increases only if the call
\* took at least one work request from the customer work queue.
C10_IncreaseOnlyOnProgress == backoff > obs.b0 => obs.taken > 0

\* C10 as amended: across a resume call backoff increases only if
\* check_customer reported Progress(n) with n > 0, or the call reached the
\* control decision point
\* (dp_spin_cnt was reset) and found neither a pending command nor a
\* last_cmd_ts older than CMD_MAX_INTERVAL_MS (the control probe did not run).
C10_IncreaseOnlyOnProgressOrIdleDecision ==
    backoff > obs.b0 =>
        \/ check_customer_progress(obs.taken) > 0
        \/ /\ dp_spin_cnt = 0
           /\ obs.probe = "skipped"
           /\ obs.conn_probe # "skipped"
           /\ elapsed <= CMD_MAX_INTERVAL_MS

\* backoff has doubled at a decision point of a call that took nothing
C10_Witness ==
    /\ backoff = 2 * obs.b0
    /\ obs.taken = 0
    /\ status = "Continue"

\* C11 as stated: across a resume call backoff decreases only if in that call
\* a control command was received from the customer and processed.
C11_DecreaseOnlyOnCommand == backoff < obs.b0 => obs.probe = "req"

\* C11 as amended: across a resume call backoff decreases only if the call
\* reached the control decision point and ran the control probe (a command
\* was pending or last_cmd_ts was older than CMD_MAX_INTERVAL_MS), whatever
\* the probe then found; backoff is then halved, dp_spin_cnt and last_cmd_ts
\* are reset.
C11_DecreaseOnlyAtControlProbe ==
    backoff < obs.b0 =>
        /\ obs.probe # "skipped"
        /\ backoff = Halved(obs.b0)
        /\ dp_spin_cnt = 0
        /\ elapsed = 0

\* backoff was halved by a call whose control probe found nothing
C11_Witness ==
    /\ backoff < obs.b0
    /\ obs.probe = "empty"
    /\ status = "Continue"

\* C12: a resume call in which try_recv_cmd fails with Other (IpcTryRecv)
\* does not fail and does not end the engine: it returns Continue.
C12_IpcTryRecvIsTransient == obs.cause = "ctrl_other" => status = "Continue"

\* C13: a resume call that meets a datapath failure (reading the available
\* slots, dequeuing work requests, sending on tx_outputs[0], enqueuing a
\* Completion) returns an error: it neither panics nor returns Continue.
C13_DatapathFailureIsError == obs.cause \in DpFaults => status = "Err"

\* C15: when a call that received a command from the customer has ended, and
\* the sends to the customer and the internal channel itself did not fail,
\* exactly one completion was sent in answer: Ok(kind of the command) or
\* Err(Generic).
C15_OneCompletionPerCommand ==
    (/\ obs.cmd # NoCmd
     /\ pc = "idle"
     /\ obs.cause \notin {"send_comp", "send_fd", "cmd_closed", "unexpected"})
    => /\ Len(obs.reply) = 1
       /\ obs.reply[1].kind \in {obs.cmd.op, "Generic"}

\* C16: the engine panics only when a completion received on the internal
\* channel has a kind other than the expected one.
C16_PanicOnlyOnProtocolViolation == status = "Panic" => obs.cause = "unexpected"

\* the number of NewConnectionInternal completions in q
RECURSIVE Notifications(_)
Notifications(q) ==
    IF q = <<>>
    THEN 0
    ELSE (IF Head(q).ok /\ Head(q).kind = "NewConnectionInternal" THEN 1 ELSE 0)
         + Notifications(Tail(q))

\* the number of NewConnection completions the application was sent, each
\* right after the fds of the connection
Forwarded ==
    Cardinality({i \in 2..Len(to_app) :
                    /\ to_app[i].t = "comp"
                    /\ to_app[i].kind = "NewConnection"
                    /\ to_app[i - 1] = [t |-> "fd", of |-> "NewConnection"]})

\* C17: between calls, every NewConnectionInternal completion the engine has
\* taken from its internal channel has been forwarded to the application as
\* one NewConnection completion preceded by the fds (unless the send to the
\* application itself failed).
C17_NewConnectionForwarded ==
    (pc = "idle" /\ obs.cause \notin {"send_fd", "send_comp"})
    => hist.nconn - Notifications(cmd_rx) = Forwarded

\* C19: a call that took work requests has doubled backoff before the spin
\* test: if it returned before the control decision, backoff is the double
\* of its value at entry; if it went through the decision, backoff is that
\* double doubled or halved again.
C19_ProgressDoubles ==
    (obs.taken > 0 /\ status = "Continue") =>
        IF dp_spin_cnt # 0
        THEN backoff = Doubled(obs.b0)
        ELSE backoff \in {Doubled(Doubled(obs.b0)), Halved(Doubled(obs.b0))}

\* C14: the transport type is set at most once: a call leaves a transport
\* type that was set as it was; a call that processes SetTransport and does
\* not fail returns Continue, having answered with a SetTransport completion
\* and set the type if none was set, and with the error completion
\* Generic(TransportType) otherwise.
C14_TransportSetOnce ==
    /\ obs.tt0 # "None" => transport_type = obs.tt0
    /\ (obs.cmd.op = "SetTransport" /\ obs.cause = "none") =>
          /\ status = "Continue"
          /\ IF obs.tt0 = "None"
             THEN /\ obs.reply = <<CompOk("SetTransport", obs.cmd.tt)>>
                  /\ transport_type = obs.cmd.tt
             ELSE obs.reply = <<CompErr("TransportType")>>

\* a second SetTransport, asking for the other type, was refused
C14_Witness ==
    /\ obs.reply = <<CompErr("TransportType")>>
    /\ status = "Continue"
    /\ obs.cmd.op = "SetTransport"
    /\ obs.cmd.tt # transport_type
    /\ transport_type = obs.tt0

\* C18: an upgrade of the engine (check_compatible, suspend, dump, restore,
\* version) completes without aborting it, and the engine then holds the
\* state it had: transport_type and backoff.
C18_UpgradeKeepsState ==
    obs.upgrade =>
        /\ status = "Continue"
        /\ backoff = obs.b0
        /\ transport_type = obs.tt0

\* C20: a call that returns Continue at the spin test (dp_spin_cnt, after the
\* increment, below backoff) has left the control plane alone: no command
\* received, no completion sent, transport_type and last_cmd_ts unchanged,
\* no new-connection probe.
C20_SpinLeavesControlAlone ==
    (status = "Continue" /\ dp_spin_cnt > 0) =>
        /\ dp_spin_cnt < backoff
        /\ obs.probe = "skipped"
        /\ obs.cmd = NoCmd
        /\ obs.sent = 0
        /\ obs.reply = <<>>
        /\ transport_type = obs.tt0
        /\ ~obs.ts_reset
        /\ obs.conn_probe = "skipped"

\* a call returned at the spin test with a command pending, a notification
\* waiting and last_cmd_ts older than CMD_MAX_INTERVAL_MS
C20_Witness ==
    /\ status = "Continue"
    /\ dp_spin_cnt > 0
    /\ ctrl # <<>>
    /\ cmd_rx # <<>>
    /\ elapsed > CMD_MAX_INTERVAL_MS

C22_PublishedIsMarshalled ==
    \A i \in 1..Len(hist.tx) : hist.tx[i].marshalled

\* the application's address of the message at ptr: the start of its region
\* in the application's address space plus its offset in the region
peer_ptr(ptr) == RegionOf(ptr).peer + query_shm_offset(ptr)

\* C23: the Completion enqueued for a message received from rx_inputs[0] has
\* the application's address of the message as shmptr, and its meta carries
\* the message's conn_id, func_id, call_id, len and msg_type.
C23_ShmptrIsPeerAddress ==
    \A i \in 1..Len(hist.cq) :
        /\ hist.cq[i].shmptr = peer_ptr(hist.rx[i].ptr)
        /\ hist.cq[i].conn_id = hist.rx[i].conn_id
        /\ hist.cq[i].func_id = hist.rx[i].func_id
        /\ hist.cq[i].call_id = hist.rx[i].call_id
        /\ hist.cq[i].len = hist.rx[i].len
        /\ hist.cq[i].msg_type =
               IF hist.rx[i].is_request THEN "Request" ELSE "Response"

\* C24: at every boundary between two resume calls, whatever the last call
\* returned, 0 <= dp_spin_cnt < backoff; and while no call has failed,
\* dp_spin_cnt is the number of calls since the last control decision point,
\* so that the next decision point comes with the backoff-th call at the
\* latest.
C24_SpinBelowBackoff ==
    (pc = "idle" /\ status # "Running") =>
        /\ 0 <= dp_spin_cnt
        /\ dp_spin_cnt < backoff
        /\ NotFailed => hist.since = dp_spin_cnt

\* a call has failed on the datapath, before the spin test, after earlier
\* calls had doubled backoff and spun
C24_Witness ==
    /\ status = "Err"
    /\ obs.cause \in {"wq_deq", "tx_send", "wq_avail"}
    /\ dp_spin_cnt >= 1
    /\ backoff >= 2

\* C25: with a backend that answers each forwarded command with its matching
\* completion and sends NewConnectionInternal notifications at any moment,
\* no call ends in the 'unexpected completion' panic: neither process_cmd nor
\* the new-connection probe takes a completion meant for the other.
C25_NoCrossedCompletion == obs.cause # "unexpected"

\* C26 as stated: while resume keeps returning without error, no pending
\* control command has waited for backoff calls or more.
C26_PendingReceivedWithinBackoff ==
    (pc = "idle" /\ status = "Continue") =>
        \A i \in DOMAIN ctrl : ctrl[i].wait < backoff

\* C26, amended: while resume keeps returning without error, the oldest
\* pending control command has not waited, as the oldest, for backoff calls
\* or more, and backoff is at most DP_LIMIT: it is received by the backoff-th
\* call, whatever the time elapsed and with the work queue never empty.
C26_OldestReceivedWithinBackoff ==
    (pc = "idle" /\ status = "Continue" /\ ctrl # <<>>) =>
        /\ hist.hwait < backoff
        /\ backoff <= DP_LIMIT

\* a command has waited one call at the spin test and is still pending
C26_Witness ==
    /\ pc = "idle"
    /\ status = "Continue"
    /\ ctrl # <<>>
    /\ hist.hwait >= 1
    /\ obs.decision = "none"
====
